---- MODULE Spec2Model ----
(***************************************************************************)
(* gomonad: the Maybe, Result and Either containers and their operators.   *)
(*                                                                         *)
(* A client program constructs one container and then applies library      *)
(* operators to it, one per step.  Every user function handed to an        *)
(* operator is a counting stub: each invocation is logged with the         *)
(* argument it received and the value it produced.                         *)
(***************************************************************************)
EXTENDS Integers, Sequences, FiniteSets, TLC

\* ---------------------------------------------------------------- bounds
MaxVal   == 1   \* payload values of a type parameter are 0..MaxVal
MaxErr   == 2   \* error values are 0..MaxErr
MaxSteps == 3   \* operator applications in one chain

\* Go's zero value of a type parameter, and the nil error.
ZeroT  == 0
NilErr == 0

Vals  == 0..MaxVal          \* the values of a payload type T
Errs  == 0..MaxErr          \* the values of type error, NilErr among them
Sides == Vals \cup Errs     \* the values either side of an Either may hold

\* A user function invocation, as the counting stub logs it.
Invoke(name, f, x) == <<[fn |-> name, arg |-> x, ret |-> f[x]]>>

\* ------------------------------------------------------------------ Maybe
Just(val) == [value |-> val, isJust |-> TRUE]

Nothing == [value |-> ZeroT, isJust |-> FALSE]

Bind(m, f) ==
    IF ~m.isJust
    THEN [ret |-> Nothing, calls |-> <<>>]
    ELSE [ret |-> f[m.value], calls |-> Invoke("f", f, m.value)]

\* Bug variant: the isJust test is missing, f runs on the zero value.
Map_NoCheck(m, f) ==
    [ret |-> Just(f[m.value]), calls |-> Invoke("f", f, m.value)]

Map(m, f) ==
    IF ~m.isJust
    THEN [ret |-> Nothing, calls |-> <<>>]
    ELSE [ret |-> Just(f[m.value]), calls |-> Invoke("f", f, m.value)]

\* Bug variant: the test is inverted.
Unpack_Inverted(m, defaultValue) == IF m.isJust THEN defaultValue ELSE m.value

Unpack(m, defaultValue) == IF ~m.isJust THEN defaultValue ELSE m.value

IsJust(m) == m.isJust

IsNothing(m) == ~m.isJust

Get(m) == m.value

\* ----------------------------------------------------------------- Result
Ok(val) == [value |-> val, err |-> NilErr, isError |-> FALSE]

Err(err) == [value |-> ZeroT, err |-> err, isError |-> TRUE]

IsOk(r) == ~r.isError

IsErr(r) == r.isError

ResultGet(r) == r.value

GetErr(r) == r.err

\* Bug variant: f runs on the zero value of a failed Result.
BindResult_NoCheck(r, f) ==
    [ret |-> f[r.value], calls |-> Invoke("f", f, r.value)]

\* Bug variant: the zero Result is returned instead of the re-wrapped error.
BindResult_ZeroResult(r, f) ==
    IF r.isError
    THEN [ret |-> Ok(ZeroT), calls |-> <<>>]
    ELSE [ret |-> f[r.value], calls |-> Invoke("f", f, r.value)]

BindResult(r, f) ==
    IF r.isError
    THEN [ret |-> Err(r.err), calls |-> <<>>]
    ELSE [ret |-> f[r.value], calls |-> Invoke("f", f, r.value)]

\* Bug variant: the error is not carried over.
MapResult_LosesErr(r, f) ==
    IF r.isError
    THEN [ret |-> Err(NilErr), calls |-> <<>>]
    ELSE [ret |-> Ok(f[r.value]), calls |-> Invoke("f", f, r.value)]

MapResult(r, f) ==
    IF r.isError
    THEN [ret |-> Err(r.err), calls |-> <<>>]
    ELSE [ret |-> Ok(f[r.value]), calls |-> Invoke("f", f, r.value)]

\* ----------------------------------------------------------------- Either
Left(val) == [left |-> val, right |-> ZeroT, isLeft |-> TRUE]

Right(val) == [left |-> ZeroT, right |-> val, isLeft |-> FALSE]

IsLeft(e) == e.isLeft

IsRight(e) == ~e.isLeft

EitherLeft(e) == e.left

EitherRight(e) == e.right

\* Bug variant: f is applied to whichever side is populated.
MapRight_BothSides(e, f) ==
    IF e.isLeft
    THEN [ret |-> Left(f[e.left]), calls |-> Invoke("f", f, e.left)]
    ELSE [ret |-> Right(f[e.right]), calls |-> Invoke("f", f, e.right)]

MapRight(e, f) ==
    IF e.isLeft
    THEN [ret |-> Left(e.left), calls |-> <<>>]
    ELSE [ret |-> Right(f[e.right]), calls |-> Invoke("f", f, e.right)]

\* Bug variant: rightFunc runs first and its result is dropped on a Left.
Fold_RunsBoth(e, leftFunc, rightFunc) ==
    IF e.isLeft
    THEN [ret |-> leftFunc[e.left],
          calls |-> Invoke("rightFunc", rightFunc, e.right)
                    \o Invoke("leftFunc", leftFunc, e.left)]
    ELSE [ret |-> rightFunc[e.right], calls |-> Invoke("rightFunc", rightFunc, e.right)]

Fold(e, leftFunc, rightFunc) ==
    IF e.isLeft
    THEN [ret |-> leftFunc[e.left], calls |-> Invoke("leftFunc", leftFunc, e.left)]
    ELSE [ret |-> rightFunc[e.right], calls |-> Invoke("rightFunc", rightFunc, e.right)]

\* Bug variant: both branches build a Right.
Swap_AlwaysRight(e) == IF e.isLeft THEN Right(e.left) ELSE Right(e.right)

\* Bug variant: only the tag is flipped, the payload stays in its field.
Swap_FlipsTag(e) == [e EXCEPT !.isLeft = ~e.isLeft]

Swap(e) == IF e.isLeft THEN Right(e.left) ELSE Left(e.right)

MapLeft(e, f) ==
    IF e.isLeft
    THEN [ret |-> Left(f[e.left]), calls |-> Invoke("f", f, e.left)]
    ELSE [ret |-> Right(e.right), calls |-> <<>>]

\* Bug variant: the branches are exchanged.
ToResult_Exchanged(e) == IF e.isLeft THEN Ok(e.right) ELSE Err(e.left)

ToResult(e) == IF e.isLeft THEN Err(e.left) ELSE Ok(e.right)

\* ------------------------------------------------- what user code can supply
\* The containers' fields are unexported: user code obtains a container from a
\* constructor only (or from an operator applied to one).
MaybeCtor  == {Nothing} \cup {Just(v) : v \in Vals}
ResultCtor == {Ok(v) : v \in Vals} \cup {Err(x) : x \in Errs}

MapFns        == [Vals -> Vals]            \* func(T) U
MaybeBindFns  == [Vals -> MaybeCtor]       \* func(T) Maybe[U]
ResultBindFns == [Vals -> ResultCtor]      \* func(T) Result[U]
SideFns       == [Sides -> Sides]          \* func(A) C, func(B) C
FoldFns       == [Sides -> Vals]           \* func(A) T, func(B) T

Identity == [x \in Vals |-> x]

\* ------------------------------------------------------------------ state
VARIABLES
    kind,       \* what the program holds: "maybe", "result", "either", "value"
    cur,        \* the container (or, after Unpack/Fold, the plain value) held
    prev,       \* the input of the last operator application
    lastOp,     \* the last operator applied ("new" right after construction)
    lastCalls,  \* the user function invocations the last operator made
    lastArg,    \* the non-function argument of the last operator (Unpack's default)
    ctor,       \* the constructor the chain started from
    ctorArg,    \* and its argument
    steps,      \* operator applications so far
    calls,      \* user function invocations so far
    dead,       \* the chain has held Nothing / an Err result
    deadCalls,  \* user function invocations made by steps taken when dead
    law         \* a composition of two binds: f, the inner result, both sides

vars == <<kind, cur, prev, lastOp, lastCalls, lastArg, ctor, ctorArg, steps,
          calls, dead, deadCalls, law>>

NoLaw == [f |-> <<>>, mid |-> <<>>, lhs |-> <<>>, rhs |-> <<>>]

\* The negative alternative of the short-circuiting families.
Negative(k, c) ==
    CASE k = "maybe"  -> IsNothing(c)
      [] k = "result" -> IsErr(c)
      [] OTHER        -> FALSE

Construct(k, name, arg, c) ==
    /\ kind = k /\ cur = c /\ prev = c
    /\ ctor = name /\ ctorArg = arg
    /\ lastOp = "new" /\ lastCalls = <<>> /\ lastArg = ZeroT
    /\ steps = 0 /\ calls = 0
    /\ dead = Negative(k, c) /\ deadCalls = 0
    /\ law = NoLaw

InitMaybe ==
    \/ \E v \in Vals : Construct("maybe", "Just", v, Just(v))
    \/ Construct("maybe", "Nothing", ZeroT, Nothing)

InitResult ==
    \/ \E v \in Vals : Construct("result", "Ok", v, Ok(v))
    \/ \E x \in Errs : Construct("result", "Err", x, Err(x))

InitEither ==
    \/ \E a \in Sides : Construct("either", "Left", a, Left(a))
    \/ \E b \in Sides : Construct("either", "Right", b, Right(b))

Init == InitMaybe \/ InitResult \/ InitEither

\* One operator application: the program now holds `out`.
Advance(op, k, out, log, a) ==
    /\ steps < MaxSteps
    /\ kind' = k /\ cur' = out /\ prev' = cur
    /\ lastOp' = op /\ lastCalls' = log /\ lastArg' = a
    /\ steps' = steps + 1
    /\ calls' = calls + Len(log)
    /\ deadCalls' = deadCalls + (IF dead THEN Len(log) ELSE 0)
    /\ dead' = (dead \/ Negative(k, out))
    /\ UNCHANGED <<ctor, ctorArg, law>>

\* ---------------------------------------------------------- Maybe steps
MapStep ==
    /\ kind = "maybe"
    /\ \E f \in MapFns :
         Advance("Map", "maybe", Map(cur, f).ret, Map(cur, f).calls, ZeroT)

MapIdentityStep ==
    /\ kind = "maybe"
    /\ Advance("MapIdentity", "maybe", Map(cur, Identity).ret,
               Map(cur, Identity).calls, ZeroT)

BindStep ==
    /\ kind = "maybe"
    /\ \E f \in MaybeBindFns :
         Advance("Bind", "maybe", Bind(cur, f).ret, Bind(cur, f).calls, ZeroT)

UnpackStep ==
    /\ kind = "maybe"
    /\ \E d \in Vals : Advance("Unpack", "value", Unpack(cur, d), <<>>, d)

\* --------------------------------------------------------- Result steps
MapResultStep ==
    /\ kind = "result"
    /\ \E f \in MapFns :
         Advance("MapResult", "result", MapResult(cur, f).ret,
                 MapResult(cur, f).calls, ZeroT)

MapResultIdentityStep ==
    /\ kind = "result"
    /\ Advance("MapResultIdentity", "result", MapResult(cur, Identity).ret,
               MapResult(cur, Identity).calls, ZeroT)

BindResultStep ==
    /\ kind = "result"
    /\ \E f \in ResultBindFns :
         Advance("BindResult", "result", BindResult(cur, f).ret,
                 BindResult(cur, f).calls, ZeroT)

\* --------------------------------------------------------- Either steps
MapRightStep ==
    /\ kind = "either"
    /\ \E f \in SideFns :
         Advance("MapRight", "either", MapRight(cur, f).ret,
                 MapRight(cur, f).calls, ZeroT)

MapLeftStep ==
    /\ kind = "either"
    /\ \E f \in SideFns :
         Advance("MapLeft", "either", MapLeft(cur, f).ret,
                 MapLeft(cur, f).calls, ZeroT)

SwapStep ==
    /\ kind = "either"
    /\ Advance("Swap", "either", Swap(cur), <<>>, ZeroT)

SwapSwapStep ==
    /\ kind = "either"
    /\ Advance("SwapSwap", "either", Swap(Swap(cur)), <<>>, ZeroT)

FoldStep ==
    /\ kind = "either"
    /\ \E leftFunc \in FoldFns, rightFunc \in FoldFns :
         Advance("Fold", "value", Fold(cur, leftFunc, rightFunc).ret,
                 Fold(cur, leftFunc, rightFunc).calls, ZeroT)

\* ToResult takes an Either[error, T]: the left side holds an error, the
\* right side a T.
ToResultStep ==
    /\ kind = "either"
    /\ cur.left \in Errs /\ cur.right \in Vals
    /\ Advance("ToResult", "result", ToResult(cur), <<>>, ZeroT)

Next ==
    \/ MapStep \/ MapIdentityStep \/ BindStep \/ UnpackStep
    \/ MapResultStep \/ MapResultIdentityStep \/ BindResultStep
    \/ MapRightStep \/ MapLeftStep \/ SwapStep \/ SwapSwapStep
    \/ FoldStep \/ ToResultStep

Spec == Init /\ [][Next]_vars

\* ------------------------------------------------- composition of binds
\* The client composes two binds both ways on a freshly constructed container:
\* Bind(Bind(cur, f), g) and Bind(cur, x -> Bind(f(x), g)).
ThenBind(f, g) == [x \in Vals |-> Bind(f[x], g).ret]

ThenBindResult(f, g) == [x \in Vals |-> BindResult(f[x], g).ret]

\* First the inner bind: the client keeps f and what Bind(cur, f) returned.
Inner(op, f, mid) ==
    /\ steps = 0
    /\ law' = [NoLaw EXCEPT !.f = f, !.mid = mid]
    /\ lastOp' = op /\ prev' = cur /\ steps' = steps + 1
    /\ UNCHANGED <<kind, cur, lastCalls, lastArg, ctor, ctorArg, calls, dead,
                   deadCalls>>

\* Then the outer bind on that, and the bind of the composed function.
Outer(op, lhs, rhs) ==
    /\ law' = [law EXCEPT !.lhs = lhs.ret, !.rhs = rhs.ret]
    /\ lastOp' = op /\ lastCalls' = lhs.calls /\ steps' = steps + 1
    /\ UNCHANGED <<kind, cur, prev, lastArg, ctor, ctorArg, calls, dead,
                   deadCalls>>

BindInnerStep ==
    /\ kind = "maybe"
    /\ \E f \in MaybeBindFns : Inner("BindInner", f, Bind(cur, f).ret)

BindOuterStep ==
    /\ kind = "maybe" /\ lastOp = "BindInner"
    /\ \E g \in MaybeBindFns :
         Outer("BindBind", Bind(law.mid, g), Bind(cur, ThenBind(law.f, g)))

BindResultInnerStep ==
    /\ kind = "result"
    /\ \E f \in ResultBindFns :
         Inner("BindResultInner", f, BindResult(cur, f).ret)

BindResultOuterStep ==
    /\ kind = "result" /\ lastOp = "BindResultInner"
    /\ \E g \in ResultBindFns :
         Outer("BindBindResult", BindResult(law.mid, g),
               BindResult(cur, ThenBindResult(law.f, g)))

InitLaws == InitMaybe \/ InitResult

NextLaws ==
    \/ BindInnerStep \/ BindOuterStep
    \/ BindResultInnerStep \/ BindResultOuterStep

SpecLaws == InitLaws /\ [][NextLaws]_vars

\* ================================================================== claims

\* C1: a chain of MapResult and BindResult steps that started from Err(e)
\* never invokes a user function, and the Result it holds is an error whose
\* GetErr is e, the error the chain started from.
ErrChainKeepsError ==
    (kind = "result" /\ ctor = "Err") =>
        /\ calls = 0
        /\ IsErr(cur)
        /\ GetErr(cur) = ctorArg

ErrChainKeepsError_Witness ==
    /\ kind = "result" /\ ctor = "Err" /\ ctorArg # NilErr
    /\ steps = MaxSteps /\ lastOp = "BindResult"
    /\ IsErr(prev)

\* C2: once a Maybe chain has held Nothing (from the start, or because a Bind
\* function returned Nothing), every later Map and Bind step returns Nothing
\* and invokes no user function.
NothingStaysNothing ==
    /\ (kind = "maybe" /\ dead) => (IsNothing(cur) /\ deadCalls = 0)
    /\ (lastOp \in {"Map", "MapIdentity", "Bind"} /\ IsNothing(prev)) =>
           (IsNothing(cur) /\ lastCalls = <<>>)

NothingStaysNothing_Witness ==
    /\ kind = "maybe" /\ ctor = "Just" /\ dead
    /\ steps = MaxSteps /\ lastOp \in {"Map", "Bind"}
    /\ IsNothing(prev) /\ calls > 0

\* C3: ToResult(Left(err)) is an error whose GetErr is err, and
\* ToResult(Right(v)) is a success whose Get is v.
ToResultPreservesSide ==
    /\ (lastOp = "ToResult" /\ steps = 1 /\ ctor = "Left") =>
           (IsErr(cur) /\ GetErr(cur) = ctorArg)
    /\ (lastOp = "ToResult" /\ steps = 1 /\ ctor = "Right") =>
           (IsOk(cur) /\ ResultGet(cur) = ctorArg)
    /\ (lastOp = "ToResult" /\ IsLeft(prev)) =>
           (IsErr(cur) /\ GetErr(cur) = EitherLeft(prev))
    /\ (lastOp = "ToResult" /\ IsRight(prev)) =>
           (IsOk(cur) /\ ResultGet(cur) = EitherRight(prev))

ToResultPreservesSide_Witness ==
    /\ lastOp = "ToResult" /\ steps = 1
    /\ ctor = "Left" /\ ctorArg # NilErr

\* C4: Fold invokes exactly one of its two functions, exactly once: leftFunc
\* on the payload of a Left, rightFunc on the payload of a Right, and returns
\* what that invocation returned.
FoldInvokesExactlyOne ==
    lastOp = "Fold" =>
        /\ Len(lastCalls) = 1
        /\ cur = lastCalls[1].ret
        /\ IsLeft(prev) =>
               (lastCalls[1].fn = "leftFunc" /\ lastCalls[1].arg = EitherLeft(prev))
        /\ IsRight(prev) =>
               (lastCalls[1].fn = "rightFunc" /\ lastCalls[1].arg = EitherRight(prev))

FoldInvokesExactlyOne_Witness ==
    /\ lastOp = "Fold" /\ IsLeft(prev)
    /\ EitherLeft(prev) # ZeroT /\ cur # ZeroT

\* C5: Swap(Swap(e)) equals e in every field, for every Either e the
\* program can hold.
SwapInvolution ==
    lastOp = "SwapSwap" => cur = prev

SwapInvolution_Witness ==
    /\ lastOp = "SwapSwap" /\ steps > 1
    /\ IsLeft(prev) /\ EitherLeft(prev) # ZeroT

\* C6: Map(m, identity) equals m and MapResult(r, identity) equals r, the
\* Nothing and Err cases included.
FunctorIdentity ==
    /\ lastOp = "MapIdentity" => cur = prev
    /\ lastOp = "MapResultIdentity" => cur = prev

FunctorIdentity_Witness ==
    /\ lastOp = "MapResultIdentity"
    /\ IsErr(prev) /\ GetErr(prev) # NilErr

\* C7: Bind(Bind(m, f), g) equals Bind(m, x -> Bind(f(x), g)), and
\* BindResult(BindResult(r, f), g) equals
\* BindResult(r, x -> BindResult(f(x), g)).
BindAssociative ==
    lastOp \in {"BindBind", "BindBindResult"} => law.lhs = law.rhs

BindAssociative_Witness ==
    /\ lastOp = "BindBindResult" /\ IsOk(cur)
    /\ IsOk(law.mid) /\ Len(lastCalls) = 1
    /\ IsErr(law.lhs) /\ GetErr(law.lhs) # NilErr

\* C8: Just(v) is a Just and unpacks to v whatever the default; Nothing() is
\* a Nothing and unpacks to the default.
UnpackReturnsHeldOrDefault ==
    /\ (lastOp = "new" /\ ctor = "Just") => (IsJust(cur) /\ ~IsNothing(cur))
    /\ (lastOp = "new" /\ ctor = "Nothing") => (IsNothing(cur) /\ ~IsJust(cur))
    /\ (lastOp = "Unpack" /\ steps = 1 /\ ctor = "Just") => cur = ctorArg
    /\ (lastOp = "Unpack" /\ steps = 1 /\ ctor = "Nothing") => cur = lastArg
    /\ lastOp = "Unpack" => cur = (IF IsJust(prev) THEN Get(prev) ELSE lastArg)

UnpackReturnsHeldOrDefault_Witness ==
    /\ lastOp = "Unpack" /\ steps = 1
    /\ ctor = "Just" /\ ctorArg # lastArg

\* C9: MapRight leaves a Left as it is and invokes nothing, and turns
\* Right(b) into Right(f(b)); MapLeft leaves a Right as it is and invokes
\* nothing, and turns Left(a) into Left(f(a)).
MapSidesOnlyOwnSide ==
    /\ (lastOp = "MapRight" /\ IsLeft(prev)) =>
           (cur = Left(EitherLeft(prev)) /\ lastCalls = <<>>)
    /\ (lastOp = "MapRight" /\ IsRight(prev)) =>
           /\ Len(lastCalls) = 1
           /\ lastCalls[1].arg = EitherRight(prev)
           /\ cur = Right(lastCalls[1].ret)
    /\ (lastOp = "MapLeft" /\ IsRight(prev)) =>
           (cur = Right(EitherRight(prev)) /\ lastCalls = <<>>)
    /\ (lastOp = "MapLeft" /\ IsLeft(prev)) =>
           /\ Len(lastCalls) = 1
           /\ lastCalls[1].arg = EitherLeft(prev)
           /\ cur = Left(lastCalls[1].ret)

MapSidesOnlyOwnSide_Witness ==
    /\ lastOp = "MapRight" /\ IsLeft(prev)
    /\ EitherLeft(prev) # ZeroT /\ steps > 1

\* C10: in every container the program can hold, the wrong-side accessor
\* returns the zero value: Get on Nothing and on an Err result, GetErr on an
\* Ok result, Left on a Right and Right on a Left.
UnpopulatedSideIsZero ==
    /\ (kind = "maybe" /\ IsNothing(cur)) => Get(cur) = ZeroT
    /\ (kind = "result" /\ IsErr(cur)) => ResultGet(cur) = ZeroT
    /\ (kind = "result" /\ IsOk(cur)) => GetErr(cur) = NilErr
    /\ (kind = "either" /\ IsRight(cur)) => EitherLeft(cur) = ZeroT
    /\ (kind = "either" /\ IsLeft(cur)) => EitherRight(cur) = ZeroT

UnpopulatedSideIsZero_Witness ==
    /\ kind = "either" /\ ctor = "Right" /\ ctorArg # ZeroT
    /\ steps = MaxSteps /\ lastOp = "Swap"
    /\ IsLeft(cur) /\ EitherLeft(cur) # ZeroT

====
